---------------------------- MODULE Spec2Model ----------------------------
(***************************************************************************)
(* A model of maven-toolbox-rs (src/src/lib.rs): the ArtifactFqn value     *)
(* operations, Resolver::create_url, Resolver::fetch_project with its      *)
(* project cache, and the recursive Resolver::build_effective_pom.         *)
(*                                                                         *)
(* Strings are sequences of one-character strings, so that the byte-index  *)
(* arithmetic of interpolate and the formatting of create_url are computed *)
(* as the code computes them.  Option<T> is a sequence of length 0 (None)  *)
(* or 1 (Some).  HashMap<K, V> is a function whose DOMAIN is the key set.  *)
(***************************************************************************)
EXTENDS Integers, Sequences, FiniteSets, TLC

VARIABLES
    project_cache,  \* Resolver.project_cache : ArtifactFqn -> Project
    stack,          \* the build_effective_pom activation records, top last
    ret,            \* the value the callee just returned to the top frame
    status,         \* "idle" | "running" | "aborted" (panic / stack overflow)
    result,         \* what the last top-level call returned
    calls,          \* number of top-level calls made so far
    fetched_ok,     \* requested coordinates fetch_project answered Ok for
    last_fetch,     \* the most recent fetch_project invocation, as observed
    last_build,     \* the most recent build_effective_pom return, as observed
    cap_calls,      \* capability invocations of the current top-level call
    first_failure,  \* first capability failure of the current top-level call
    url_result,     \* what the last direct create_url call returned
    interp,         \* one application of ArtifactFqn::interpolate
    norm            \* one application of ArtifactFqn::normalize

vars == << project_cache, stack, ret, status, result, calls, fetched_ok,
           last_fetch, last_build, cap_calls, first_failure, url_result,
           interp, norm >>

resolver_vars == << project_cache, stack, ret, status, result, calls,
                    fetched_ok, last_fetch, last_build, cap_calls,
                    first_failure, url_result >>

---------------------------------------------------------------------------
(* Option<T> and strings *)

None == << >>
Some(x) == << x >>
IsSome(o) == Len(o) = 1
IsNone(o) == Len(o) = 0
Unwrap(o) == o[1]
\* Option::or_else
OrElse(o, other) == IF IsSome(o) THEN o ELSE other

\* 0-based half-open byte range s[from..to], as Rust slices it
Slice(s, from, to) == SubSeq(s, from + 1, to)

\* does pat occur in s at 0-based index i
MatchAt(s, pat, i) ==
    /\ i + Len(pat) <= Len(s)
    /\ \A j \in 1..Len(pat) : s[i + j] = pat[j]

\* str::find: Some(first 0-based index of pat in s) or None
Find(s, pat) ==
    LET hits == { i \in 0..Len(s) : MatchAt(s, pat, i) }
    IN  IF hits = {} THEN None
        ELSE Some(CHOOSE i \in hits : \A j \in hits : i <= j)

\* str::contains
Contains(s, pat) == IsSome(Find(s, pat))

\* String::replace_range(from..to, with)
ReplaceRange(s, from, to, with) ==
    SubSeq(s, 1, from) \o with \o SubSeq(s, to + 1, Len(s))

\* str::replace for a one-character pattern
RECURSIVE ReplaceChar(_, _, _)
ReplaceChar(s, from, to) ==
    IF s = << >> THEN << >>
    ELSE (IF Head(s) = from THEN to ELSE << Head(s) >>)
         \o ReplaceChar(Tail(s), from, to)

s_pom == << "p", "o", "m" >>
s_jar == << "j", "a", "r" >>
s_compile == << "c", "o", "m", "p", "i", "l", "e" >>
s_import == << "i", "m", "p", "o", "r", "t" >>
s_test == << "t", "e", "s", "t" >>
s_project_version ==
    << "p", "r", "o", "j", "e", "c", "t", ".",
       "v", "e", "r", "s", "i", "o", "n" >>
s_dollar_brace == << "$", "{" >>
s_close_brace == << "}" >>

---------------------------------------------------------------------------
(* ArtifactFqn *)

ArtifactFqn(g, a, v, p, c) ==
    [ group_id |-> g, artifact_id |-> a, version |-> v,
      packaging |-> p, classifier |-> c ]

\* ArtifactFqn::pom
pom(g, a, v) == ArtifactFqn(Some(g), Some(a), Some(v), Some(s_pom), None)

\* The closure of interpolate applied to a version that contains "${":
\* the outcome is the new string, or a panic when the slice
\* s[start + 2..end] has its start after its end (end is an index into
\* s[start..], used as an index into s).
interpolate_version(s, properties) ==
    LET start == Find(s, s_dollar_brace)
    IN  IF IsNone(start) THEN [ panicked |-> FALSE, value |-> s ]
        ELSE LET st  == Unwrap(start)
                 end == Find(Slice(s, st, Len(s)), s_close_brace)
             IN  IF IsNone(end) THEN [ panicked |-> FALSE, value |-> s ]
                 ELSE LET en == Unwrap(end)
                      IN  IF st + 2 > en
                          THEN [ panicked |-> TRUE, value |-> s ]
                          ELSE LET expr == Slice(s, st + 2, en)
                               IN  IF expr \in DOMAIN properties
                                   THEN [ panicked |-> FALSE,
                                          value |-> ReplaceRange(s, st, en + 1,
                                                       properties[expr]) ]
                                   ELSE [ panicked |-> FALSE, value |-> s ]

\* ArtifactFqn::interpolate
interpolate(self, properties) ==
    IF IsSome(self.version) /\ Contains(Unwrap(self.version), s_dollar_brace)
    THEN LET r == interpolate_version(Unwrap(self.version), properties)
         IN  [ panicked |-> r.panicked,
               value |-> [ self EXCEPT !.version = Some(r.value) ] ]
    ELSE [ panicked |-> FALSE, value |-> self ]

\* ArtifactFqn::with_packaging
with_packaging(self, packaging) == [ self EXCEPT !.packaging = Some(packaging) ]

\* ArtifactFqn::same_ga
same_ga(self, other) ==
    self.group_id = other.group_id /\ self.artifact_id = other.artifact_id

\* ArtifactFqn::normalize: the classifier comes from Default::default()
ArtifactFqn_normalize(self, parent, default_packaging) ==
    [ group_id    |-> OrElse(self.group_id, parent.group_id),
      artifact_id |-> OrElse(self.artifact_id, parent.artifact_id),
      version     |-> OrElse(self.version, parent.version),
      packaging   |-> OrElse(self.packaging, Some(default_packaging)),
      classifier  |-> None ]

\* impl Display for ArtifactFqn
s_unknown == << "?" >>
s_colon == << ":" >>
ArtifactFqn_fmt(self) ==
    LET f(o) == IF IsSome(o) THEN Unwrap(o) ELSE s_unknown
    IN  f(self.group_id) \o s_colon \o f(self.artifact_id) \o s_colon
        \o f(self.version) \o s_colon \o f(self.packaging) \o s_colon
        \o f(self.classifier)

---------------------------------------------------------------------------
(* Dependency, DependencyKey, Project *)

Dependency(fqn, scope) == [ artifact_fqn |-> fqn, scope |-> scope ]

\* Dependency::get_key
get_key(self) ==
    [ group_id |-> self.artifact_fqn.group_id,
      artifact_id |-> self.artifact_fqn.artifact_id ]

\* Dependency::normalize defaulting the scope and leaving the coordinate
\* as declared
Dependency_normalize_scope_only(self, parent_id, default_packaging) ==
    [ artifact_fqn |-> self.artifact_fqn,
      scope |-> OrElse(self.scope, Some(s_compile)) ]

\* Dependency::normalize
Dependency_normalize(self, parent_id, default_packaging) ==
    [ artifact_fqn |-> ArtifactFqn_normalize(self.artifact_fqn, parent_id,
                                             default_packaging),
      scope |-> OrElse(self.scope, Some(s_compile)) ]

\* normalize_gavs: every entry is normalized and re-keyed by its new key.
\* When two entries get the same key, collect() keeps the one the HashMap
\* iteration yields last, which is any of them: the operator is the set of
\* the maps the call can return.
normalize_gavs(dependencies, parent_fqn, default_packaging) ==
    LET deps == { Dependency_normalize(dependencies[k], parent_fqn,
                                       default_packaging) :
                  k \in DOMAIN dependencies }
        keys == { get_key(d) : d \in deps }
    IN  { m \in [ keys -> deps ] : \A k \in keys : get_key(m[k]) = k }

\* HashMap::extend: the entries of other overwrite those of self
Extend(self, other) ==
    [ k \in DOMAIN self \cup DOMAIN other |->
        IF k \in DOMAIN other THEN other[k] ELSE self[k] ]

\* HashMap::insert
Insert(self, k, v) == [ x \in DOMAIN self \cup { k } |->
                          IF x = k THEN v ELSE self[x] ]

EmptyMap == << >>

\* a HashMap<DependencyKey, Dependency> keyed as the default parser keys it
DepMap(deps) == [ k \in { get_key(d) : d \in deps } |->
                    CHOOSE d \in deps : get_key(d) = k ]

Project(parent, fqn, dm, deps, props) ==
    [ parent |-> parent, artifact_fqn |-> fqn, dependency_management |-> dm,
      dependencies |-> deps, properties |-> props ]

---------------------------------------------------------------------------
(* Result<T, ResolverError> *)

NoValue == << >>
Ok(v) == [ kind |-> "ok", value |-> v, error |-> NoValue ]
Err(e) == [ kind |-> "err", value |-> NoValue, error |-> e ]

s_quote == << "'" >>
s_is_missing_from ==
    << "'", " ", "i", "s", " ", "m", "i", "s", "s", "i", "n", "g", " ",
       "f", "r", "o", "m", " " >>
s_groupId == << "g", "r", "o", "u", "p", "I", "d" >>
s_artifactId == << "a", "r", "t", "i", "f", "a", "c", "t", "I", "d" >>
s_version == << "v", "e", "r", "s", "i", "o", "n" >>
s_packaging == << "p", "a", "c", "k", "a", "g", "i", "n", "g" >>

\* ResolverError::missing_parameter
missing_parameter(fqn, field_name) ==
    [ kind |-> "ClientError",
      msg |-> s_quote \o field_name \o s_is_missing_from
              \o ArtifactFqn_fmt(fqn) ]

---------------------------------------------------------------------------
(* Resolver::create_url *)

\* Repository.base_url as Resolver::default() sets it
base_url ==
    << "h", "t", "t", "p", "s", ":", "/", "/", "r", "e", "p", "o", ".",
       "m", "a", "v", "e", "n", ".", "a", "p", "a", "c", "h", "e", ".",
       "o", "r", "g", "/", "m", "a", "v", "e", "n", "2" >>
s_slash == << "/" >>
s_dash == << "-" >>
s_dot == << "." >>

\* create_url requiring the version before the group and the artifact
create_url_swapped(id) ==
    IF IsNone(id.version) THEN Err(missing_parameter(id, s_version))
    ELSE IF IsNone(id.group_id) THEN Err(missing_parameter(id, s_groupId))
    ELSE IF IsNone(id.artifact_id)
         THEN Err(missing_parameter(id, s_artifactId))
    ELSE IF IsNone(id.packaging)
         THEN Err(missing_parameter(id, s_packaging))
    ELSE Ok(base_url \o s_slash
            \o ReplaceChar(Unwrap(id.group_id), ".", s_slash) \o s_slash
            \o Unwrap(id.artifact_id) \o s_slash
            \o Unwrap(id.version) \o s_slash
            \o Unwrap(id.artifact_id) \o s_dash \o Unwrap(id.version)
            \o (IF IsSome(id.classifier)
                THEN s_dash \o Unwrap(id.classifier) ELSE << >>)
            \o s_dot \o Unwrap(id.packaging))

create_url(id) ==
    IF IsNone(id.group_id) THEN Err(missing_parameter(id, s_groupId))
    ELSE IF IsNone(id.artifact_id)
         THEN Err(missing_parameter(id, s_artifactId))
    ELSE IF IsNone(id.version) THEN Err(missing_parameter(id, s_version))
    ELSE IF IsNone(id.packaging)
         THEN Err(missing_parameter(id, s_packaging))
    ELSE Ok(base_url \o s_slash
            \o ReplaceChar(Unwrap(id.group_id), ".", s_slash) \o s_slash
            \o Unwrap(id.artifact_id) \o s_slash
            \o Unwrap(id.version) \o s_slash
            \o Unwrap(id.artifact_id) \o s_dash \o Unwrap(id.version)
            \o (IF IsSome(id.classifier)
                THEN s_dash \o Unwrap(id.classifier) ELSE << >>)
            \o s_dot \o Unwrap(id.packaging))

---------------------------------------------------------------------------
(* The repository behind the two capabilities: the documents a UrlFetcher *)
(* serves and what a PomParser (default_impl.rs) makes of each.           *)

g_a == << "a" >>
g_b == << "b" >>
g_c == << "c" >>
g_x == << "x" >>
g_p == << "p" >>
a_leaf == << "l", "e", "a", "f" >>
a_child == << "c", "h", "i", "l", "d" >>
a_parent == << "p", "a", "r", "e", "n", "t" >>
a_app == << "a", "p", "p" >>
a_bom == << "b", "o", "m" >>
a_bom2 == << "b", "o", "m", "2" >>
a_y == << "y" >>
a_q == << "q" >>
a_a == << "a" >>
a_z == << "z" >>
c_s == << "s" >>
v_1_0 == << "1", ".", "0" >>
v_2_0 == << "2", ".", "0" >>
v_3_0 == << "3", ".", "0" >>
v_4_0 == << "4", ".", "0" >>
v_5_0 == << "5", ".", "0" >>
v_6_0 == << "6", ".", "0" >>
v_7_0 == << "7", ".", "0" >>
v_8_0 == << "8", ".", "0" >>
v_project_version == s_dollar_brace \o s_project_version \o s_close_brace

\* a <dependency> element with groupId, artifactId and optional rest
Dep(g, a, v, p, scope) ==
    Dependency(ArtifactFqn(Some(g), Some(a), v, p, None), scope)
\* a <parent> element
ParentRef(g, a, v) ==
    Some([ artifact_fqn |-> ArtifactFqn(Some(g), Some(a), Some(v), None, None) ])
Managed(deps) == Some([ dependencies |-> DepMap(deps) ])

\* the spec scenario: a:child:1.0 under a:parent:1.0, and a:leaf:1.0 under
\* a:child:1.0 (a chain of three)
at_leaf == pom(g_a, a_leaf, v_1_0)
at_child == pom(g_a, a_child, v_1_0)
at_parent == pom(g_a, a_parent, v_1_0)
doc_leaf ==
    Project(ParentRef(g_a, a_child, v_1_0),
            ArtifactFqn(None, Some(a_leaf), None, None, None),
            None,
            DepMap({ Dep(g_p, a_q, Some(v_4_0), None, Some(s_test)) }),
            EmptyMap)
doc_child ==
    Project(ParentRef(g_a, a_parent, v_1_0),
            ArtifactFqn(Some(g_a), Some(a_child), Some(v_1_0), None, None),
            None,
            DepMap({ Dep(g_x, a_y, None, None, None) }),
            EmptyMap)
doc_parent ==
    Project(None,
            ArtifactFqn(Some(g_a), Some(a_parent), Some(v_1_0), Some(s_pom),
                        None),
            None,
            DepMap({ Dep(g_x, a_y, Some(v_2_0), None, None),
                     Dep(g_p, a_q, Some(v_3_0), None, None) }),
            EmptyMap)

\* b:app:1.0 imports the BOMs b:bom:${project.version} and b:bom2:1.0
at_app == pom(g_b, a_app, v_1_0)
at_bom == pom(g_b, a_bom, v_1_0)
at_bom2 == pom(g_b, a_bom2, v_1_0)
doc_app ==
    Project(None,
            ArtifactFqn(Some(g_b), Some(a_app), Some(v_1_0), None, None),
            Managed({ Dep(g_b, a_bom, Some(v_project_version), Some(s_pom),
                          Some(s_import)),
                      Dep(g_b, a_bom2, Some(v_1_0), Some(s_pom),
                          Some(s_import)),
                      Dep(g_x, a_y, Some(v_5_0), None, None) }),
            DepMap({ Dep(g_x, a_y, None, None, None) }),
            EmptyMap)
doc_bom ==
    Project(None,
            ArtifactFqn(Some(g_b), Some(a_bom), Some(v_1_0), Some(s_pom),
                        None),
            Managed({ Dep(g_x, a_y, Some(v_6_0), None, None),
                      Dep(g_p, a_q, Some(v_7_0), None, None) }),
            EmptyMap, EmptyMap)
doc_bom2 ==
    Project(None,
            ArtifactFqn(Some(g_b), Some(a_bom2), Some(v_1_0), Some(s_pom),
                        None),
            Managed({ Dep(g_p, a_q, Some(v_8_0), None, None) }),
            EmptyMap, EmptyMap)

\* c:a:1.0 with classifier s (parent c:z:1.0), c:z:1.0 (parent c:a:1.0
\* without classifier) and c:a:1.0 (no parent): each document declares the
\* coordinate it is served at, and the parent references have no cycle
at_cs == ArtifactFqn(Some(g_c), Some(a_a), Some(v_1_0), Some(s_pom), Some(c_s))
at_cz == pom(g_c, a_z, v_1_0)
at_ca == pom(g_c, a_a, v_1_0)
doc_cs ==
    Project(ParentRef(g_c, a_z, v_1_0),
            ArtifactFqn(Some(g_c), Some(a_a), Some(v_1_0), None, Some(c_s)),
            None, EmptyMap, EmptyMap)
doc_cz ==
    Project(ParentRef(g_c, a_a, v_1_0),
            ArtifactFqn(Some(g_c), Some(a_z), Some(v_1_0), None, None),
            None, EmptyMap, EmptyMap)
doc_ca ==
    Project(None,
            ArtifactFqn(Some(g_c), Some(a_a), Some(v_1_0), None, None),
            None, EmptyMap, EmptyMap)

Docs ==
    { [ at |-> at_leaf, project |-> doc_leaf ],
      [ at |-> at_child, project |-> doc_child ],
      [ at |-> at_parent, project |-> doc_parent ],
      [ at |-> at_app, project |-> doc_app ],
      [ at |-> at_bom, project |-> doc_bom ],
      [ at |-> at_bom2, project |-> doc_bom2 ],
      [ at |-> at_cs, project |-> doc_cs ],
      [ at |-> at_cz, project |-> doc_cz ],
      [ at |-> at_ca, project |-> doc_ca ] }

UrlOf(id) == create_url(id).value
DocsAt(url) == { d \in Docs : UrlOf(d.at) = url }

\* the URLs whose fetch can fail, and the documents whose parse can fail
FlakyUrls == { UrlOf(at_parent) }
CorruptTexts == { UrlOf(at_bom2) }

s_fetch_failed ==
    << "f", "e", "t", "c", "h", " ", "f", "a", "i", "l", "e", "d", ":", " " >>
s_invalid_input_data ==
    << "I", "n", "v", "a", "l", "i", "d", " ", "i", "n", "p", "u", "t", " ",
       "d", "a", "t", "a", ":", " " >>
s_no_project_tag ==
    << "i", "n", "v", "a", "l", "i", "d", " ", "X", "M", "L", " ", "c", "o",
       "n", "t", "e", "n", "t", ",", " ", "n", "o", " ", "<", "p", "r", "o",
       "j", "e", "c", "t", ">", " ", "t", "a", "g" >>

\* ResolverError::invalid_data
invalid_data(details) ==
    [ kind |-> "ClientError", msg |-> s_invalid_input_data \o details ]

\* UrlFetcher::fetch: the outcomes a call can have.  The text of a document
\* is represented by the URL that serves it.
fetch(url) ==
    (IF DocsAt(url) # {} THEN { Ok(url) } ELSE {})
    \cup (IF DocsAt(url) = {} \/ url \in FlakyUrls
          THEN { Err([ kind |-> "ClientError",
                       msg |-> s_fetch_failed \o url ]) }
          ELSE {})

\* PomParser::parse: the outcomes a call can have
parse(input) ==
    { Ok(d.project) : d \in DocsAt(input) }
    \cup (IF input \in CorruptTexts
          THEN { Err(invalid_data(s_no_project_tag)) } ELSE {})

---------------------------------------------------------------------------
(* Resolver::fetch_project *)

\* what one fetch_project call did: its result, the cache it leaves, whether
\* it invoked each capability, and the capability failure it met
FetchOutcome(res, cache, fetched, parsed, failure) ==
    [ res |-> res, cache |-> cache, fetched |-> fetched, parsed |-> parsed,
      failure |-> failure ]

\* lines 408-440: the parsed project is given its coordinate, normalized
\* against its parent and cached under its own coordinate
cache_parsed(cache, parsed) ==
    LET own == with_packaging(parsed.artifact_fqn, s_pom)
    IN  IF IsNone(parsed.parent)
        THEN LET project == [ parsed EXCEPT !.artifact_fqn = own ]
             IN  { FetchOutcome(Ok(project), Insert(cache, own, project),
                                TRUE, TRUE, None) }
        ELSE LET parent_fqn ==
                     with_packaging(Unwrap(parsed.parent).artifact_fqn, s_pom)
                 project_id == ArtifactFqn_normalize(own, parent_fqn, s_pom)
                 dms == IF IsNone(parsed.dependency_management)
                        THEN { None }
                        ELSE { Some([ dependencies |-> m ]) :
                               m \in normalize_gavs(
                                   Unwrap(parsed.dependency_management)
                                       .dependencies,
                                   parent_fqn, s_jar) }
             IN  { LET project ==
                           Project(Some([ artifact_fqn |-> parent_fqn ]),
                                   project_id, dm, deps, parsed.properties)
                   IN  FetchOutcome(Ok(project),
                                    Insert(cache, project_id, project),
                                    TRUE, TRUE, None) :
                   deps \in normalize_gavs(parsed.dependencies, parent_fqn,
                                           s_jar),
                   dm \in dms }

\* the outcomes of fetch_project(project_id) on a resolver whose cache is
\* cache
fetch_project(cache, requested) ==
    LET project_id == with_packaging(requested, s_pom)
    IN  IF project_id \in DOMAIN cache
        THEN { FetchOutcome(Ok(cache[project_id]), cache, FALSE, FALSE,
                            None) }
        ELSE LET url == create_url(project_id)
             IN  IF url.kind = "err"
                 THEN { FetchOutcome(Err(url.error), cache, FALSE, FALSE,
                                     None) }
                 ELSE UNION {
                        IF text.kind = "err"
                        THEN { FetchOutcome(text, cache, TRUE, FALSE,
                                            Some(text.error)) }
                        ELSE UNION {
                               IF parsed.kind = "err"
                               THEN { FetchOutcome(parsed, cache, TRUE, TRUE,
                                                   Some(parsed.error)) }
                               ELSE cache_parsed(cache, parsed.value) :
                               parsed \in parse(text.value) } :
                        text \in fetch(url.value) }

---------------------------------------------------------------------------
(* Resolver::build_effective_pom, one activation record per call *)

\* the most top-level calls a resolver receives
MaxCalls == 2
\* the most activation records the thread's stack holds; a deeper call
\* overflows it and aborts the process
MaxDepth == 4

NoFqn == ArtifactFqn(None, None, None, None, None)

\* line 322: the record of a call that has not fetched yet
Frame(project_id) ==
    [ project_id |-> with_packaging(project_id, s_pom),
      pc |-> "start",
      fetched |-> NoValue,        \* what fetch_project returned
      project |-> NoValue,        \* let mut project
      parent_project |-> None,    \* what the parent's call returned
      project_dm |-> None,        \* the local copy of the managed entries
      boms |-> EmptyMap,          \* the BOMs not yet visited
      bom_projects |-> << >> ]    \* what the BOMs' calls returned, in order

\* what a call does next: return a value, call itself for a parent or a
\* BOM, or panic
Return(f, value) ==
    [ op |-> "return", frame |-> f, value |-> value, callee |-> NoFqn ]
Call(f, callee) ==
    [ op |-> "call", frame |-> f, value |-> Ok(NoValue), callee |-> callee ]
Panic(f) ==
    [ op |-> "panic", frame |-> f, value |-> Ok(NoValue), callee |-> NoFqn ]

Restrict(m, keys) == [ k \in keys |-> m[k] ]

\* lines 360-365 and 376: the next BOM of the loop in any order the
\* HashMap iteration may have given the vector, or Ok(project)
next_bom(f) ==
    IF DOMAIN f.boms = {}
    THEN { Return(f, Ok(f.project)) }
    ELSE { Call([ f EXCEPT !.pc = "bom",
                           !.boms = Restrict(@, DOMAIN @ \ { k }) ],
                f.boms[k].artifact_fqn) :
           k \in DOMAIN f.boms }

\* lines 348-358: the managed entries are cloned and interpolated and the
\* import-scoped ones collected
collect_boms(f) ==
    IF IsNone(f.project.dependency_management)
    THEN { Return(f, Ok(f.project)) }
    ELSE LET dm == Unwrap(f.project.dependency_management).dependencies
             ip(k) == interpolate(dm[k].artifact_fqn, f.project.properties)
         IN  IF \E k \in DOMAIN dm : ip(k).panicked
             THEN { Panic(f) }
             ELSE LET project_dm ==
                          [ k \in DOMAIN dm |->
                              [ dm[k] EXCEPT !.artifact_fqn = ip(k).value ] ]
                      imports == { k \in DOMAIN dm :
                                   project_dm[k].scope = Some(s_import) }
                  IN  next_bom([ f EXCEPT
                                   !.project_dm = Some(project_dm),
                                   !.boms = Restrict(project_dm, imports) ])

\* lines 339-345 with the parent's entries overwriting the child's
merge_parent_overwriting(dependencies, parent_dependencies) ==
    Extend(dependencies, parent_dependencies)

\* lines 339-345: the parent's entries whose key the project lacks are added
merge_parent(dependencies, parent_dependencies) ==
    LET extra_deps ==
            Restrict(parent_dependencies,
                     { k \in DOMAIN parent_dependencies :
                       k \notin DOMAIN dependencies })
    IN  Extend(dependencies, extra_deps)

\* lines 324-335: after fetch_project returned res
after_fetch(f, res) ==
    IF res.kind = "err"
    THEN { Return(f, res) }
    ELSE LET project ==
                 IF IsSome(f.project_id.version)
                 THEN [ res.value EXCEPT !.properties =
                          Insert(@, s_project_version,
                                 Unwrap(f.project_id.version)) ]
                 ELSE res.value
             f1 == [ f EXCEPT !.fetched = res.value, !.project = project ]
         IN  IF IsSome(project.parent)
             THEN { Call([ f1 EXCEPT !.pc = "parent" ],
                         Unwrap(project.parent).artifact_fqn) }
             ELSE collect_boms(f1)

\* lines 335-346: after the parent's call returned r
after_parent(f, r) ==
    IF r.kind = "err"
    THEN { Return(f, r) }
    ELSE collect_boms([ f EXCEPT
             !.parent_project = Some(r.value),
             !.project.dependencies =
                 merge_parent(@, r.value.dependencies) ])

\* lines 365-373 with a failed BOM skipped instead of returned
after_bom_skipping_failed(f, r) ==
    IF r.kind = "err"
    THEN next_bom(f)
    ELSE next_bom([ f EXCEPT
             !.bom_projects = Append(@, r.value),
             !.project_dm =
                 IF IsSome(r.value.dependency_management)
                 THEN Some(Extend(Unwrap(@),
                          Unwrap(r.value.dependency_management).dependencies))
                 ELSE @ ])

\* lines 365-373: after a BOM's call returned r
after_bom(f, r) ==
    IF r.kind = "err"
    THEN { Return(f, r) }
    ELSE next_bom([ f EXCEPT
             !.bom_projects = Append(@, r.value),
             !.project_dm =
                 IF IsSome(r.value.dependency_management)
                 THEN Some(Extend(Unwrap(@),
                          Unwrap(r.value.dependency_management).dependencies))
                 ELSE @ ])

---------------------------------------------------------------------------
(* The resolver as a state machine *)

\* the coordinates callers ask for: the documents' own, one with another
\* packaging, and three that lack a field
Requests ==
    { d.at : d \in Docs }
    \cup { with_packaging(at_child, s_jar),
           ArtifactFqn(None, Some(a_child), Some(v_1_0), Some(s_pom), None),
           ArtifactFqn(Some(g_a), None, None, Some(s_jar), None),
           ArtifactFqn(Some(g_a), Some(a_child), None, None, None) }

\* create_url is also given coordinates without a packaging
UrlRequests ==
    Requests \cup { ArtifactFqn(Some(g_a), Some(a_child), Some(v_1_0), None,
                                Some(c_s)),
                    ArtifactFqn(None, None, Some(v_1_0), None, None) }

Top == stack[Len(stack)]
SetTop(f) == [ stack EXCEPT ![Len(stack)] = f ]
Size(m) == Cardinality(DOMAIN m)

\* what an observer of one fetch_project(requested) call sees
Observation(requested, out) ==
    LET id == with_packaging(requested, s_pom)
    IN  [ id |-> id,
          cached |-> id \in DOMAIN project_cache,
          prior_ok |-> id \in fetched_ok,
          res |-> out.res,
          fetched |-> out.fetched,
          parsed |-> out.parsed,
          size_before |-> Size(project_cache),
          size_after |-> Size(out.cache),
          kept |-> \A k \in DOMAIN project_cache :
                       k \in DOMAIN out.cache,
          cache_unchanged |-> out.cache = project_cache ]

\* the bookkeeping of one fetch_project call made when the current
\* top-level call had made n capability calls and met the failure ff
Observe(requested, out, n, ff) ==
    LET made == n + (IF out.fetched THEN 1 ELSE 0)
                  + (IF out.parsed THEN 1 ELSE 0)
    IN  /\ project_cache' = out.cache
        /\ last_fetch' = Some(Observation(requested, out))
        /\ fetched_ok' = IF out.res.kind = "ok"
                         THEN fetched_ok \cup { with_packaging(requested, s_pom) }
                         ELSE fetched_ok
        /\ cap_calls' = made
        /\ first_failure' =
               IF IsSome(ff) THEN ff
               ELSE IF IsSome(out.failure)
                    THEN Some([ error |-> Unwrap(out.failure),
                                cap_calls |-> made ])
                    ELSE None

\* what an observer of one returning build_effective_pom call sees
Built(f, value) ==
    [ project_id |-> f.project_id,
      fetched |-> f.fetched,
      parent_project |-> f.parent_project,
      project_dm |-> f.project_dm,
      bom_projects |-> f.bom_projects,
      value |-> value ]

\* the top call returns, calls itself, or panics
Do(eff) ==
    CASE eff.op = "return" ->
           /\ stack' = SubSeq(stack, 1, Len(stack) - 1)
           /\ ret' = Some(eff.value)
           /\ status' = IF Len(stack) = 1 THEN "idle" ELSE status
           /\ result' = IF Len(stack) = 1
                        THEN Some([ op |-> "build_effective_pom",
                                    id |-> eff.frame.project_id,
                                    res |-> eff.value ])
                        ELSE result
           /\ last_build' = IF eff.value.kind = "ok"
                            THEN Some(Built(eff.frame, eff.value.value))
                            ELSE last_build
      [] eff.op = "call" /\ Len(stack) < MaxDepth ->
           /\ stack' = Append(SetTop(eff.frame), Frame(eff.callee))
           /\ ret' = None
           /\ UNCHANGED << status, result, last_build >>
      [] OTHER ->
           \* a panic, or a call the stack has no room for
           /\ status' = "aborted"
           /\ stack' = SetTop(eff.frame)
           /\ ret' = None
           /\ UNCHANGED << result, last_build >>

\* a caller invokes build_effective_pom(project_id)
CallBuildEffectivePom ==
    /\ status = "idle"
    /\ calls < MaxCalls
    /\ \E project_id \in Requests : stack' = << Frame(project_id) >>
    /\ status' = "running"
    /\ calls' = calls + 1
    /\ ret' = None
    /\ result' = None
    /\ cap_calls' = 0
    /\ first_failure' = None
    /\ UNCHANGED << project_cache, fetched_ok, last_fetch, last_build,
                    url_result, interp, norm >>

\* lines 320-335 of the top call, and on to its first BOM or its return
BuildStart ==
    /\ status = "running"
    /\ Top.pc = "start"
    /\ \E out \in fetch_project(project_cache, Top.project_id) :
         /\ Observe(Top.project_id, out, cap_calls, first_failure)
         /\ \E eff \in after_fetch(Top, out.res) : Do(eff)
    /\ UNCHANGED << calls, url_result, interp, norm >>

\* lines 335-346 of the top call, whose parent's call has returned
BuildAfterParent ==
    /\ status = "running"
    /\ Top.pc = "parent"
    /\ IsSome(ret)
    /\ \E eff \in after_parent(Top, Unwrap(ret)) : Do(eff)
    /\ UNCHANGED << project_cache, calls, fetched_ok, last_fetch, cap_calls,
                    first_failure, url_result, interp, norm >>

\* lines 365-376 of the top call, one of whose BOMs' calls has returned
BuildAfterBom ==
    /\ status = "running"
    /\ Top.pc = "bom"
    /\ IsSome(ret)
    /\ \E eff \in after_bom(Top, Unwrap(ret)) : Do(eff)
    /\ UNCHANGED << project_cache, calls, fetched_ok, last_fetch, cap_calls,
                    first_failure, url_result, interp, norm >>

\* a caller invokes fetch_project(project_id)
CallFetchProject ==
    /\ status = "idle"
    /\ calls < MaxCalls
    /\ \E project_id \in Requests :
         \E out \in fetch_project(project_cache, project_id) :
           /\ Observe(project_id, out, 0, None)
           /\ result' = Some([ op |-> "fetch_project",
                               id |-> with_packaging(project_id, s_pom),
                               res |-> out.res ])
    /\ calls' = calls + 1
    /\ UNCHANGED << stack, ret, status, last_build, url_result, interp,
                    norm >>

\* a caller invokes create_url(id)
CallCreateUrl ==
    /\ status = "idle"
    /\ calls < MaxCalls
    /\ \E id \in UrlRequests :
         url_result' = Some([ id |-> id, res |-> create_url(id) ])
    /\ calls' = calls + 1
    /\ UNCHANGED << project_cache, stack, ret, status, result, fetched_ok,
                    last_fetch, last_build, cap_calls, first_failure,
                    interp, norm >>

\* Resolver::default()
ResolverInit ==
    /\ project_cache = EmptyMap
    /\ stack = << >>
    /\ ret = None
    /\ status = "idle"
    /\ result = None
    /\ calls = 0
    /\ fetched_ok = {}
    /\ last_fetch = None
    /\ last_build = None
    /\ cap_calls = 0
    /\ first_failure = None
    /\ url_result = None

Init ==
    /\ ResolverInit
    /\ interp = None
    /\ norm = None

Next ==
    \/ CallBuildEffectivePom
    \/ BuildStart
    \/ BuildAfterParent
    \/ BuildAfterBom
    \/ CallFetchProject
    \/ CallCreateUrl

Spec == Init /\ [][Next]_vars

\* build_effective_pom is sequential code: a call that can take its next
\* step takes it
BuildStep == BuildStart \/ BuildAfterParent \/ BuildAfterBom
FairSpec == Spec /\ WF_vars(BuildStep)

---------------------------------------------------------------------------
(* ArtifactFqn::interpolate and ArtifactFqn::normalize applied to inputs  *)
(* drawn from bounded sets                                                *)

\* the longest version string interpolate is applied to
MaxVersionLen == 5
VersionChars == { "$", "{", "}", "v", "1" }
VersionStrings == UNION { [ 1..n -> VersionChars ] : n \in 0..MaxVersionLen }
PropertyTables ==
    { EmptyMap,
      [ k \in { << "v" >> } |-> << "2" >> ],
      [ k \in { << >>, << "1" >> } |-> << "9" >> ] }

InterpolateInit ==
    /\ ResolverInit
    /\ norm = None
    /\ \E version \in { None } \cup { Some(s) : s \in VersionStrings },
          rest \in { << None, None >>, << Some(s_jar), Some(c_s) >> },
          properties \in PropertyTables :
         interp = [ self |-> ArtifactFqn(Some(g_x), Some(a_y), version,
                                         rest[1], rest[2]),
                    properties |-> properties,
                    done |-> FALSE,
                    panicked |-> FALSE,
                    out |-> NoFqn ]

CallInterpolate ==
    /\ ~interp.done
    /\ LET r == interpolate(interp.self, interp.properties)
       IN  interp' = [ interp EXCEPT !.done = TRUE,
                                     !.panicked = r.panicked,
                                     !.out = IF r.panicked THEN NoFqn
                                             ELSE r.value ]
    /\ UNCHANGED << resolver_vars, norm >>

InterpolateSpec == InterpolateInit /\ [][CallInterpolate]_vars

\* the field values of the two coordinates normalize is applied to
OwnField == { None, Some(<< "o" >>) }
ParentField == { None, Some(<< "p" >>) }

NormalizeInit ==
    /\ ResolverInit
    /\ interp = None
    /\ \E self \in [ group_id : OwnField, artifact_id : OwnField,
                     version : OwnField, packaging : OwnField,
                     classifier : OwnField ],
          parent \in [ group_id : ParentField, artifact_id : ParentField,
                       version : ParentField, packaging : ParentField,
                       classifier : ParentField ],
          default_packaging \in { s_pom, s_jar } :
         norm = [ self |-> self, parent |-> parent,
                  default_packaging |-> default_packaging,
                  done |-> FALSE, out |-> NoFqn ]

CallNormalize ==
    /\ ~norm.done
    /\ norm' = [ norm EXCEPT
                   !.done = TRUE,
                   !.out = ArtifactFqn_normalize(norm.self, norm.parent,
                                                 norm.default_packaging) ]
    /\ UNCHANGED << resolver_vars, interp >>

NormalizeSpec == NormalizeInit /\ [][CallNormalize]_vars

---------------------------------------------------------------------------
(* Properties *)

LastFetch == Unwrap(last_fetch)
LastBuild == Unwrap(last_build)
Returned(op, id) ==
    /\ status = "idle"
    /\ IsSome(result)
    /\ Unwrap(result).op = op
    /\ Unwrap(result).id = id

\* C1 (as claimed): once fetch_project has answered Ok for a coordinate,
\* every later fetch_project for that coordinate (packaging forced to
\* "pom") is answered from the cache and invokes neither the fetch nor the
\* parse capability.
AtMostOnceFetch ==
    (IsSome(last_fetch) /\ LastFetch.prior_ok)
        => /\ LastFetch.cached
           /\ ~LastFetch.fetched
           /\ ~LastFetch.parsed

\* C2 (as claimed): the descriptor build_effective_pom returns has, in its
\* dependency_management, every managed entry of every imported BOM's
\* effective descriptor, an entry of a later BOM replacing an earlier one
\* with the same key.
BomManagementReturned ==
    IsSome(last_build) =>
        \A i \in 1..Len(LastBuild.bom_projects) :
            LET bom == LastBuild.bom_projects[i]
                later == { j \in (i + 1)..Len(LastBuild.bom_projects) :
                           IsSome(LastBuild.bom_projects[j]
                                      .dependency_management) }
            IN  IsSome(bom.dependency_management) =>
                  /\ IsSome(LastBuild.value.dependency_management)
                  /\ \A k \in DOMAIN Unwrap(bom.dependency_management)
                                         .dependencies :
                       LET got == Unwrap(LastBuild.value
                                             .dependency_management)
                                      .dependencies
                       IN  /\ k \in DOMAIN got
                           /\ (\A j \in later :
                                 k \notin DOMAIN
                                     Unwrap(LastBuild.bom_projects[j]
                                                .dependency_management)
                                         .dependencies)
                              => got[k] = Unwrap(bom.dependency_management)
                                              .dependencies[k]

\* C3: when a build_effective_pom call whose descriptor has a parent
\* returns, the returned dependency map has exactly the keys of the fetched
\* child descriptor and of the parent's effective descriptor, each child
\* entry unchanged and each parent entry unchanged under a key the child
\* does not declare.
ParentMergePrecedence ==
    (IsSome(last_build) /\ IsSome(LastBuild.parent_project)) =>
        LET child == LastBuild.fetched.dependencies
            parent == Unwrap(LastBuild.parent_project).dependencies
            got == LastBuild.value.dependencies
        IN  /\ DOMAIN got = DOMAIN child \cup DOMAIN parent
            /\ \A k \in DOMAIN got :
                 got[k] = IF k \in DOMAIN child THEN child[k] ELSE parent[k]

\* a:leaf:1.0 has returned with its parent a:child:1.0 merged, itself
\* merged with a:parent:1.0: p:q is declared by the leaf and by the
\* parent's effective descriptor, x:y by the latter alone
ParentMergeWitness ==
    /\ IsSome(last_build)
    /\ LastBuild.project_id = at_leaf
    /\ IsSome(LastBuild.parent_project)
    /\ IsSome(Unwrap(LastBuild.parent_project).parent)
    /\ \E k \in DOMAIN LastBuild.fetched.dependencies :
         /\ k \in DOMAIN Unwrap(LastBuild.parent_project).dependencies
         /\ LastBuild.fetched.dependencies[k]
              # Unwrap(LastBuild.parent_project).dependencies[k]
    /\ \E k \in DOMAIN Unwrap(LastBuild.parent_project).dependencies :
         k \notin DOMAIN LastBuild.fetched.dependencies

\* C4: after the first failure of a capability call within a top-level
\* call no further capability call is made, and when the call has returned
\* it has returned that failure and no descriptor.
FailurePropagation ==
    IsSome(first_failure) =>
        /\ cap_calls = Unwrap(first_failure).cap_calls
        /\ status # "aborted"
        /\ status = "idle"
             => /\ IsSome(result)
                /\ Unwrap(result).res = Err(Unwrap(first_failure).error)

\* build_effective_pom(b:app:1.0) has returned the parse failure of the
\* BOM b:bom2:1.0, met while the BOM b:bom:1.0 was still to be visited
FailurePropagationWitness ==
    /\ Returned("build_effective_pom", at_app)
    /\ IsSome(first_failure)
    /\ Unwrap(first_failure).error = invalid_data(s_no_project_tag)
    /\ Unwrap(result).res.kind = "err"
    /\ at_bom \notin DOMAIN project_cache

\* C5 (as claimed): no fetch_project call removes a cache entry, a
\* successful one adds exactly one entry when the requested coordinate was
\* not cached and none when it was, and the cache holds as many entries as
\* distinct coordinates have been fetched successfully.
CacheGrowth ==
    /\ calls = 0 => Size(project_cache) = 0
    /\ IsSome(last_fetch) =>
         /\ LastFetch.kept
         /\ LastFetch.res.kind = "ok" =>
              LastFetch.size_after =
                  LastFetch.size_before + (IF LastFetch.cached THEN 0 ELSE 1)
    /\ Size(project_cache) = Cardinality(fetched_ok)

\* the first "${", the first "}" after it, and the name between them
ExpectedVersion(s, properties) ==
    LET opens == { i \in 0..Len(s) : MatchAt(s, s_dollar_brace, i) }
    IN  IF opens = {} THEN s
        ELSE LET start == CHOOSE i \in opens : \A j \in opens : i <= j
                 closes == { i \in (start + 2)..Len(s) :
                             MatchAt(s, s_close_brace, i) }
             IN  IF closes = {} THEN s
                 ELSE LET end == CHOOSE i \in closes :
                                     \A j \in closes : i <= j
                          name == SubSeq(s, start + 3, end)
                      IN  IF name \in DOMAIN properties
                          THEN SubSeq(s, 1, start) \o properties[name]
                               \o SubSeq(s, end + 2, Len(s))
                          ELSE s

\* C6 (as claimed): interpolate returns the coordinate with the first
\* "${name}" of its version, wherever it starts, replaced by the table's
\* value for name; the version is unchanged when there is no "${", no "}"
\* after it or no value for name; every other field is unchanged.
InterpolateSubstitutes ==
    interp.done =>
        /\ ~interp.panicked
        /\ interp.out =
             [ interp.self EXCEPT !.version =
                 IF IsSome(@)
                 THEN Some(ExpectedVersion(Unwrap(@), interp.properties))
                 ELSE @ ]

\* C7 (as claimed): normalize takes group, artifact and version from self
\* when present and from the parent otherwise, the packaging from self or
\* else the default, and leaves the classifier the coordinate's own.
NormalizeKeepsOwnFields ==
    norm.done =>
        /\ norm.out.group_id =
             IF IsSome(norm.self.group_id) THEN norm.self.group_id
             ELSE norm.parent.group_id
        /\ norm.out.artifact_id =
             IF IsSome(norm.self.artifact_id) THEN norm.self.artifact_id
             ELSE norm.parent.artifact_id
        /\ norm.out.version =
             IF IsSome(norm.self.version) THEN norm.self.version
             ELSE norm.parent.version
        /\ norm.out.packaging =
             IF IsSome(norm.self.packaging) THEN norm.self.packaging
             ELSE Some(norm.default_packaging)
        /\ norm.out.classifier = norm.self.classifier

key_x_y == [ group_id |-> Some(g_x), artifact_id |-> Some(a_y) ]
key_p_q == [ group_id |-> Some(g_p), artifact_id |-> Some(a_q) ]
ScenarioReturned ==
    /\ Returned("build_effective_pom", at_child)
    /\ Unwrap(result).res.kind = "ok"
ScenarioDependencies == Unwrap(result).res.value.dependencies

\* C8 (as claimed): the effective descriptor of a:child:1.0 has the
\* child's x:y entry with its version still absent, and p:q:3.0 exactly as
\* a:parent:1.0 declares it.
ScenarioVersionAbsent ==
    ScenarioReturned =>
        /\ DOMAIN ScenarioDependencies = { key_x_y, key_p_q }
        /\ IsNone(ScenarioDependencies[key_x_y].artifact_fqn.version)
        /\ ScenarioDependencies[key_p_q] = doc_parent.dependencies[key_p_q]

\* C8 (amended): the effective descriptor of a:child:1.0 has the child's
\* x:y entry, whose version is 1.0, the version of the parent coordinate
\* a:parent:1.0 (not the 2.0 of the parent's x:y), and p:q:3.0 exactly as
\* a:parent:1.0 declares it.
ScenarioVersionFromParentCoordinate ==
    ScenarioReturned =>
        /\ DOMAIN ScenarioDependencies = { key_x_y, key_p_q }
        /\ ScenarioDependencies[key_x_y].artifact_fqn.version = Some(v_1_0)
        /\ ScenarioDependencies[key_x_y].artifact_fqn.version
             = Unwrap(doc_child.parent).artifact_fqn.version
        /\ ScenarioDependencies[key_x_y] = project_cache[at_child]
                                               .dependencies[key_x_y]
        /\ ScenarioDependencies[key_p_q] = doc_parent.dependencies[key_p_q]
        /\ ScenarioDependencies[key_p_q].artifact_fqn.version = Some(v_3_0)

\* build_effective_pom(a:child:1.0) has returned a descriptor after both
\* documents were fetched
ScenarioWitness ==
    /\ ScenarioReturned
    /\ at_parent \in DOMAIN project_cache
    /\ key_x_y \in DOMAIN ScenarioDependencies
    /\ key_x_y \in DOMAIN doc_child.dependencies
    /\ IsNone(doc_child.dependencies[key_x_y].artifact_fqn.version)

\* the fields create_url requires, in the order it requires them
RequiredFields ==
    << [ name |-> s_groupId, field |-> "group_id" ],
       [ name |-> s_artifactId, field |-> "artifact_id" ],
       [ name |-> s_version, field |-> "version" ],
       [ name |-> s_packaging, field |-> "packaging" ] >>
MissingFields(id) ==
    { i \in 1..Len(RequiredFields) : IsNone(id[RequiredFields[i].field]) }
FirstMissing(id) ==
    RequiredFields[CHOOSE i \in MissingFields(id) :
                       \A j \in MissingFields(id) : i <= j].name

\* C9: a fetch_project call for a coordinate that is not cached and lacks
\* a required field, and a create_url call for a coordinate that lacks
\* one, return the missing-parameter error that names the first missing
\* field in the order groupId, artifactId, version, packaging; the
\* fetch_project call invokes no capability and leaves the cache as it was.
MissingCoordinateField ==
    /\ (IsSome(last_fetch) /\ ~LastFetch.cached
           /\ MissingFields(LastFetch.id) # {})
         => /\ LastFetch.res = Err(missing_parameter(LastFetch.id,
                                       FirstMissing(LastFetch.id)))
            /\ ~LastFetch.fetched
            /\ ~LastFetch.parsed
            /\ LastFetch.cache_unchanged
    /\ (IsSome(url_result) /\ MissingFields(Unwrap(url_result).id) # {})
         => Unwrap(url_result).res =
                Err(missing_parameter(Unwrap(url_result).id,
                                      FirstMissing(Unwrap(url_result).id)))

\* fetch_project was asked for a coordinate with a group but neither an
\* artifact nor a version, with documents already cached
MissingCoordinateFieldWitness ==
    /\ IsSome(last_fetch)
    /\ ~LastFetch.cached
    /\ IsSome(LastFetch.id.group_id)
    /\ IsNone(LastFetch.id.artifact_id)
    /\ IsNone(LastFetch.id.version)
    /\ LastFetch.res.kind = "err"
    /\ LastFetch.size_before > 0

\* the descriptors fetch_project can return for a coordinate from an empty
\* cache, and the coordinates build_effective_pom then calls itself for:
\* the parent reference and the interpolated import-scoped managed entries
DescriptorsAt(id) ==
    { o.res.value : o \in { x \in fetch_project(EmptyMap, id) :
                            x.res.kind = "ok" } }
ReferencesOf(id, project) ==
    LET properties ==
            IF IsSome(id.version)
            THEN Insert(project.properties, s_project_version,
                        Unwrap(id.version))
            ELSE project.properties
        managed ==
            IF IsSome(project.dependency_management)
            THEN Unwrap(project.dependency_management).dependencies
            ELSE EmptyMap
    IN  (IF IsSome(project.parent)
         THEN { with_packaging(Unwrap(project.parent).artifact_fqn, s_pom) }
         ELSE {})
        \cup { with_packaging(
                   interpolate(managed[k].artifact_fqn, properties).value,
                   s_pom) :
               k \in { x \in DOMAIN managed :
                       managed[x].scope = Some(s_import) } }
References(id) ==
    UNION { ReferencesOf(id, project) : project \in DescriptorsAt(id) }

RECURSIVE ReachableIn(_, _)
ReachableIn(ids, n) ==
    IF n = 0 THEN ids
    ELSE ReachableIn(ids \cup UNION { References(id) : id \in ids }, n - 1)
\* the coordinates reachable from id by one reference or more
Descendants(id) == ReachableIn(References(id), Cardinality(Docs))
AcyclicFrom(root) ==
    \A id \in { root } \cup Descendants(root) : id \notin Descendants(id)

\* the roots callers ask for whose references reach no cycle, each with the
\* number of coordinates its references reach
AcyclicRoots ==
    { root \in { with_packaging(id, s_pom) : id \in Requests } :
      AcyclicFrom(root) }
ReachedFrom == [ root \in AcyclicRoots |-> Cardinality(Descendants(root)) ]

\* C10 (as claimed), in the form a finite run refutes: a
\* build_effective_pom call for a root from which the parent and BOM
\* references reach no cycle is, until it returns, alive and able to take
\* its next step, and nests no deeper than the coordinates its references
\* reach (the calls on the stack of a terminating recursion are for
\* distinct coordinates of a path from the root).
TerminationOfAcyclic ==
    (status # "idle" /\ stack[1].project_id \in AcyclicRoots) =>
        /\ status = "running"
        /\ Top.pc = "start" \/ IsSome(ret)
        /\ Len(stack) <= 1 + ReachedFrom[stack[1].project_id]

\* C10 (as claimed), as a temporal property of FairSpec
Termination ==
    (status = "running" /\ stack[1].project_id \in AcyclicRoots)
        ~> (status = "idle")

\* the scope each direct dependency of a descriptor has once defaulted
ScopesSet(project) ==
    \A k \in DOMAIN project.dependencies :
        IsSome(project.dependencies[k].scope)

\* C11 (as claimed): every direct dependency of a descriptor that
\* fetch_project or build_effective_pom returns has a scope set, whether
\* the descriptor that declares it has a parent or not ("compile" when
\* the document declared none).
ScopeDefaulted ==
    (status = "idle" /\ IsSome(result) /\ Unwrap(result).res.kind = "ok")
        => ScopesSet(Unwrap(result).res.value)

====
